---- MODULE Spec2Model ----
(***************************************************************************)
(* Model of the scene lifecycle and the renderer negotiation of            *)
(* ThreeEngine (three-engine.ts) with its button panel GUIView.            *)
(*                                                                         *)
(* Plane instances are numbered 1, 2, ... in construction order; a plane   *)
(* handle holds the number of the instance it refers to, or Null.          *)
(* Exceptions thrown by a constructor or a setup call are inputs of the    *)
(* environment, drawn per call.  The browser's rendering capabilities are  *)
(* fixed when the page starts.                                             *)
(*                                                                         *)
(* The planes (TSLPlaneSDF, TSLPlaneDesertTank, TSLPlaneRaymarching) are   *)
(* modelled by their uniforms, their fallback material's uniforms, their   *)
(* registered input listeners and the vehicle's key state.                 *)
(***************************************************************************)
EXTENDS Integers, Sequences, FiniteSets, TLC

\* ------------------------------------------------------------------ bounds
MaxInstances == 3

\* frames of 1/60 s the clock may advance
MaxClock == 1

\* lateral steps the vehicle may be away from its start
MaxMove == 1

\* --------------------------------------------------------------- constants
Null == 0

PlaneType == {"wave", "sdf", "desert-tank", "raymarching", "none"}

\* a tag no button carries; reaches switchToPlane through onPlaneChange
UnknownTag == "unknown"

forceRenderer == "webgpu"

HandleNames == <<"tslPlane", "tslPlaneSDF", "tslDesertTank", "raymarchPlane">>

Ids == 1..MaxInstances

\* what the browser offers: a tier's probe is absent, or present with a
\* renderer constructor that throws, or present and working
Capability == {"absent", "fails", "ok"}

\* node-material creation in initMaterial: it succeeds, or it throws before
\* the TSL uniforms exist, or after them; the fallback ShaderMaterial is
\* used in the last two cases
TslOutcome == {"ok", "failsEarly", "failsLate"}

\* floats are held in units of 1/Scale
Scale == 10000

\* the vehicle's offsets are held in units of 1/PosScale, times in frames
\* of 1/60 s: a lateral step of 4 * deltaTime = 4/60 is one unit
PosScale == 15

LateralStep == 1

DeltaTime == 1

WindowSize == <<1024, 768>>

Sizes == {<<800, 600>>}

\* the key code the keyboard delivers
KeyCodes == {"KeyD"}

\* the buttons pressed while the planes are driven; "wave" and "raymarching"
\* are selected by the engine constructor
PlayTags == {"sdf", "desert-tank", "none"}

EmptyRec == [n \in {} |-> 0]

\* an animation's elapsed time is held in JumpSteps-ths of jumpDuration and
\* in ShootSteps-ths of shootDuration
JumpSteps == 4

ShootSteps == 5

\* by how many steps the timestamp of an animation frame exceeds that of the
\* frame before it
FrameGaps == {1, 2}

\* the keys the vehicle reads for jumping and steering, and for firing
JumpKeys == {"KeyW", "KeyA", "KeyD"}

ShootKeys == {"Space"}

\* where a create call may throw
FailModes(t) ==
  CASE t = "raymarching" -> {"none", "ctor", "setup"}
    [] t \in {"wave", "sdf", "desert-tank"} -> {"none", "ctor"}
    [] OTHER -> {"none"}

VARIABLES
  env,                \* browser capabilities: [gpu, gl2, base]
  negState,           \* position of initThree in the tier hierarchy
  attempts,           \* renderer constructions attempted, in order
  renderer,           \* tier of this.renderer, or "none"
  rendererConfigured, \* setSize / setClearColor applied
  phase,              \* position of the engine constructor
  guiCreated,         \* the button panel exists
  guiActivePlane,     \* GUIView.params.activePlane
  tslPlane, tslPlaneSDF, tslDesertTank, raymarchPlane,
  currentActivePlane,
  scene,              \* plane instances whose mesh is in the scene
  kindOf,             \* instance -> its variant, "none" if not constructed
  disposeCount,       \* instance -> number of dispose() calls on it
  nextId,             \* number of the next instance
  log,                \* events of the last handler, in order
  last,               \* the last handler: request, outcome, state before
  rendered,           \* some frame was submitted to the renderer
  tsl,                \* outcome of node-material creation on this page
  inst,               \* instance -> its uniforms, material and input state
  listeners,          \* registered input listeners
  clock,              \* performance.now(), in frames of 1/60 s
  rendererSize        \* size given to renderer.setSize, <<0, 0>> if never

vars == <<env, negState, attempts, renderer, rendererConfigured, phase,
          guiCreated, guiActivePlane, tslPlane, tslPlaneSDF, tslDesertTank,
          raymarchPlane, currentActivePlane, scene, kindOf, disposeCount,
          nextId, log, last, rendered, tsl, inst, listeners, clock,
          rendererSize>>

negVars == <<env, negState, attempts, renderer, rendererConfigured>>

\* ------------------------------------------------------- lifecycle state
\* the engine's lifecycle fields as one record, for the handlers below
Eng ==
  [tslPlane |-> tslPlane, tslPlaneSDF |-> tslPlaneSDF,
   tslDesertTank |-> tslDesertTank, raymarchPlane |-> raymarchPlane,
   currentActivePlane |-> currentActivePlane, scene |-> scene,
   kindOf |-> kindOf, disposeCount |-> disposeCount, nextId |-> nextId,
   inst |-> inst, listeners |-> listeners, tsl |-> tsl,
   log |-> <<>>, threw |-> FALSE]

Ev(op, id) == [op |-> op, id |-> id]

LiveOf(S) ==
  {S[HandleNames[i]] : i \in 1..4} \ {Null}

LiveHandles == LiveOf(Eng)

\* ---------------------------------------------------------- plane classes
\* an instance: the TSL uniform objects (if they were created), the
\* fallback ShaderMaterial's uniforms (if it was built), and input state
\* and the closures of the jump and shoot animations: how many animation
\* loops have a frame requested, startY, and the elapsed time last seen
NoInst ==
  [hasUni |-> FALSE, uni |-> EmptyRec, hasMat |-> FALSE, mat |-> EmptyRec,
   keyMap |-> {}, canJump |-> TRUE, canShoot |-> TRUE,
   jumpAnims |-> 0, jumpStartY |-> 0, jumpElapsed |-> 0,
   shootAnims |-> 0, shootElapsed |-> 0]

SdfUniforms == [radius |-> 2500, fade |-> 15000]

SdfFallback == [uTime |-> 0, uRadius |-> 2500, uFade |-> 15000]

RaymarchUniforms ==
  [radius |-> 1500, fade |-> 10000, rayFrom |-> <<5000, 5000>>,
   rayTo |-> <<10000, 10000>>, maxSteps |-> 20, surfaceDistance |-> 1,
   maxDistance |-> 50000, timeMultiplier |-> 10000]

RaymarchFallback ==
  [uTime |-> 0, uRadius |-> 1500, uFade |-> 10000, uRayFrom |-> <<5000, 5000>>,
   uRayTo |-> <<10000, 10000>>, uMaxSteps |-> 20, uSurfaceDistance |-> 1,
   uMaxDistance |-> 50000, uTimeMultiplier |-> 10000]

TankUniforms ==
  [wheelOffset |-> <<-10 * PosScale, 0>>, bulletOffset |-> 20 * PosScale,
   shellOffset |-> 25 * PosScale]

TankFallback ==
  [uTime |-> 0, uWheelOffset |-> <<-10 * PosScale, 0>>,
   uBulletOffset |-> 20 * PosScale, uShellOffset |-> 25 * PosScale]

\* the constructor's initMaterial: try the node material, else the fallback
initMaterial(uniforms, fallback, t) ==
  [NoInst EXCEPT !.hasUni = (t # "failsEarly"),
                 !.uni = IF t # "failsEarly" THEN uniforms ELSE EmptyRec,
                 !.hasMat = (t # "ok"),
                 !.mat = IF t # "ok" THEN fallback ELSE EmptyRec]

\* the state of a newly constructed plane (TSLPlane itself keeps no state
\* the engine reads)
NewInst(kind, t) ==
  CASE kind = "sdf" -> initMaterial(SdfUniforms, SdfFallback, t)
    [] kind = "raymarching" -> initMaterial(RaymarchUniforms, RaymarchFallback, t)
    [] kind = "desert-tank" -> initMaterial(TankUniforms, TankFallback, t)
    [] OTHER -> NoInst

MatName(n) ==
  CASE n = "radius" -> "uRadius"
    [] n = "fade" -> "uFade"
    [] n = "rayFrom" -> "uRayFrom"
    [] n = "rayTo" -> "uRayTo"
    [] n = "maxSteps" -> "uMaxSteps"
    [] n = "surfaceDistance" -> "uSurfaceDistance"
    [] n = "maxDistance" -> "uMaxDistance"
    [] n = "timeMultiplier" -> "uTimeMultiplier"
    [] n = "wheelOffset" -> "uWheelOffset"
    [] n = "bulletOffset" -> "uBulletOffset"
    [] n = "shellOffset" -> "uShellOffset"

\* `get x()`: the TSL uniform if it exists, else the material's, else dflt
Get(I, n, dflt) ==
  IF I.hasUni THEN I.uni[n]
  ELSE IF I.hasMat /\ MatName(n) \in DOMAIN I.mat THEN I.mat[MatName(n)]
  ELSE dflt

\* `set x(value)`: the TSL uniform if it exists, else the material's
Set(I, n, v) ==
  IF I.hasUni THEN [I EXCEPT !.uni[n] = v]
  ELSE IF I.hasMat /\ MatName(n) \in DOMAIN I.mat
       THEN [I EXCEPT !.mat[MatName(n)] = v]
  ELSE I

HasTime(I) == I.hasMat /\ "uTime" \in DOMAIN I.mat

\* TSLPlaneSDF.update(time) and TSLPlaneRaymarching.update(time)
updateTime(I, time) ==
  IF HasTime(I) THEN [I EXCEPT !.mat.uTime = time] ELSE I

Listener(target, type, fn, owner) ==
  [target |-> target, type |-> type, fn |-> fn, owner |-> owner]

\* TSLPlaneDesertTank.initControls
initControls(id) ==
  {Listener("document", "keydown", "onDocumentKey", id),
   Listener("document", "keyup", "onDocumentKey", id)}

\* the addEventListener calls of TSLPlaneRaymarching.setupMouseInteraction
setupMouseInteraction(id) ==
  {Listener("canvas", "pointermove", "onPointerMove", id),
   Listener("canvas", "pointerdown", "onPointerDown", id)}

\* the texture coordinates a pointer ray can hit on the plane's mesh
\* (a PlaneGeometry, so every intersection carries a uv); `intersects` is
\* the empty sequence when the ray misses
HitUvs == {<<0, 0>>, <<2500, 7500>>, <<10000, 10000>>}

Intersections == {<<>>} \cup {<<uv>> : uv \in HitUvs}

\* onPointerMove also drags the ray origin
OnPointerMoveDragsOrigin(I, intersects) ==
  IF Len(intersects) > 0
  THEN Set(Set(I, "rayTo", intersects[1]), "rayFrom", intersects[1])
  ELSE I

\* the onPointerMove closure of setupMouseInteraction:
\* `if (intersects.length > 0) this.rayTo = intersects[0].uv`
onPointerMove(I, intersects) ==
  IF Len(intersects) > 0 THEN Set(I, "rayTo", intersects[1]) ELSE I

\* the onPointerDown closure:
\* `this.rayFrom = new THREE.Vector2().copy(this.rayTo)`
onPointerDown(I) == Set(I, "rayFrom", Get(I, "rayTo", <<10000, 10000>>))

\* dispose() of a plane: geometry and material are disposed; the vehicle
\* also calls removeEventListener, passing this.initControls
dispose(L, kind, id) ==
  IF kind = "desert-tank"
  THEN L \ {Listener("document", "keydown", "initControls", id),
            Listener("document", "keyup", "initControls", id)}
  ELSE L

\* TSLPlaneDesertTank.jump, up to its first requestAnimationFrame
jump(I) ==
  IF ~I.canJump THEN I
  ELSE [I EXCEPT !.canJump = FALSE,
                 !.jumpStartY = Get(I, "wheelOffset", <<-10 * PosScale, 0>>)[2],
                 !.jumpElapsed = 0,
                 !.jumpAnims = @ + 1]

\* jumpHeight * sin(upProgress * PI / 2) for progress < 1/2 and
\* jumpHeight * cos(downProgress * PI / 2) after it, at elapsed time e,
\* rounded to units of 1/PosScale
JumpCurve(e) ==
  CASE e = 0 -> 0
    [] e = 1 -> 53
    [] e = 2 -> 5 * PosScale
    [] e = 3 -> 53
    [] OTHER -> 0

\* the last frame leaves canJump false
AnimateJumpKeepsLock(I, e) ==
  LET x == Get(I, "wheelOffset", <<-10 * PosScale, 0>>)[1]
      I1 == Set([I EXCEPT !.jumpElapsed = e], "wheelOffset",
                <<x, I.jumpStartY + JumpCurve(e)>>)
  IN IF e < JumpSteps THEN I1
     ELSE [Set(I1, "wheelOffset", <<x, I.jumpStartY>>) EXCEPT
             !.jumpElapsed = 0, !.jumpAnims = @ - 1]

\* a frame writes the x the vehicle was constructed with
AnimateJumpStaleX(I, e) ==
  LET x == -10 * PosScale
      I1 == Set([I EXCEPT !.jumpElapsed = e], "wheelOffset",
                <<x, I.jumpStartY + JumpCurve(e)>>)
  IN IF e < JumpSteps THEN I1
     ELSE [Set(I1, "wheelOffset", <<x, I.jumpStartY>>) EXCEPT
             !.canJump = TRUE, !.jumpElapsed = 0, !.jumpAnims = @ - 1]

\* animateJump(currentTime), a frame of the jump at elapsed time e: x is
\* read back from the uniform, y is set from startY; at progress 1 the
\* loop ends with y = startY and canJump = true
animateJump(I, e) ==
  LET x == Get(I, "wheelOffset", <<-10 * PosScale, 0>>)[1]
      I1 == Set([I EXCEPT !.jumpElapsed = e], "wheelOffset",
                <<x, I.jumpStartY + JumpCurve(e)>>)
  IN IF e < JumpSteps THEN I1
     ELSE [Set(I1, "wheelOffset", <<Get(I1, "wheelOffset", <<-10 * PosScale, 0>>)[1],
                                     I.jumpStartY>>) EXCEPT
             !.canJump = TRUE, !.jumpElapsed = 0, !.jumpAnims = @ - 1]

\* the offsets keep their values when a shot starts
ShootNoReset(I) ==
  IF ~I.canShoot THEN I
  ELSE [I EXCEPT !.canShoot = FALSE, !.shootElapsed = 0, !.shootAnims = @ + 1]

\* TSLPlaneDesertTank.shoot, up to its first requestAnimationFrame
shoot(I) ==
  IF ~I.canShoot THEN I
  ELSE Set(Set([I EXCEPT !.canShoot = FALSE, !.shootElapsed = 0,
                         !.shootAnims = @ + 1],
               "bulletOffset", 0), "shellOffset", 0)

\* animateShoot(currentTime), a frame of the shot at elapsed time e:
\* bulletOffset = 20 * progress, shellOffset = 25 * progress
animateShoot(I, e) ==
  LET q == IF e < ShootSteps THEN e ELSE ShootSteps
      I1 == Set(Set([I EXCEPT !.shootElapsed = e],
                    "bulletOffset", (20 * PosScale * q) \div ShootSteps),
                "shellOffset", (25 * PosScale * q) \div ShootSteps)
  IN IF e < ShootSteps THEN I1
     ELSE [I1 EXCEPT !.canShoot = TRUE, !.shootElapsed = 0, !.shootAnims = @ - 1]

\* TSLPlaneDesertTank.update(deltaTime): the jump key, the lateral keys, the
\* fire key, then the fallback material's time uniform
updateTank(I, deltaTime) ==
  LET I0 == IF {"KeyW", "ArrowUp"} \cap I.keyMap # {} /\ I.canJump
            THEN jump(I) ELSE I
      w0 == Get(I0, "wheelOffset", <<-10 * PosScale, 0>>)
      I1 == IF {"KeyA", "ArrowLeft"} \cap I0.keyMap # {}
            THEN Set(I0, "wheelOffset", <<w0[1] - LateralStep * deltaTime, w0[2]>>)
            ELSE I0
      w1 == Get(I1, "wheelOffset", <<-10 * PosScale, 0>>)
      I2 == IF {"KeyD", "ArrowRight"} \cap I1.keyMap # {}
            THEN Set(I1, "wheelOffset", <<w1[1] + LateralStep * deltaTime, w1[2]>>)
            ELSE I1
      I3 == IF "Space" \in I2.keyMap /\ I2.canShoot THEN shoot(I2) ELSE I2
  IN IF HasTime(I3) THEN [I3 EXCEPT !.mat.uTime = @ + deltaTime] ELSE I3

\* one `if (this.h) { scene.remove(h.mesh); h.dispose(); this.h = null }`
CleanupHandle(S, h) ==
  IF S[h] # Null
  THEN [S EXCEPT !.scene = @ \ {S[h]},
                 !.disposeCount[S[h]] = @ + 1,
                 !.listeners = dispose(@, S.kindOf[S[h]], S[h]),
                 !.log = @ \o <<Ev("remove", S[h]), Ev("dispose", S[h])>>,
                 ![h] = Null]
  ELSE S

CleanupSkipRaymarch(S) ==
  CleanupHandle(CleanupHandle(CleanupHandle(S,
    "tslPlane"), "tslPlaneSDF"), "tslDesertTank")

cleanupCurrentPlane(S) ==
  CleanupHandle(CleanupHandle(CleanupHandle(CleanupHandle(S,
    "tslPlane"), "tslPlaneSDF"), "tslDesertTank"), "raymarchPlane")

\* `new TSLPlane...(...)` returning normally: a fresh instance
Construct(S, kind) ==
  [S EXCEPT !.kindOf[S.nextId] = kind,
            !.inst[S.nextId] = NewInst(kind, S.tsl),
            !.listeners = IF kind = "desert-tank"
                          THEN @ \cup initControls(S.nextId) ELSE @,
            !.nextId = @ + 1,
            !.log = @ \o <<Ev("construct", S.nextId)>>]

SceneAdd(S, id) ==
  [S EXCEPT !.scene = @ \cup {id}, !.log = @ \o <<Ev("add", id)>>]

\* the three creators wrapped in try/catch: a throwing constructor is
\* logged and swallowed, the handle is assigned before scene.add
CreateCaught(S, h, kind, f) ==
  IF f = "ctor"
  THEN [S EXCEPT !.log = @ \o <<Ev("caught", Null)>>]
  ELSE LET id == S.nextId
       IN SceneAdd([Construct(S, kind) EXCEPT ![h] = id], id)

createWavePlane(S, f) == CreateCaught(S, "tslPlane", "wave", f)

\* the new plane keeps the values of its constructor
CreateSDFDefaults(S, f) == CreateCaught(S, "tslPlaneSDF", "sdf", f)

\* also sets radius = 0.3 and fade = 2.0 on the new plane
createSDFPlane(S, f) ==
  LET S1 == CreateCaught(S, "tslPlaneSDF", "sdf", f)
  IN IF f = "ctor" THEN S1
     ELSE [S1 EXCEPT !.inst[S.nextId] =
             Set(Set(@, "radius", 3000), "fade", 20000)]

\* the new vehicle takes over the state of the vehicle before it
CreateDesertTankReusing(S, f) ==
  LET S1 == CreateCaught(S, "tslDesertTank", "desert-tank", f)
      prev == {i \in 1..(S.nextId - 1) : S.kindOf[i] = "desert-tank"}
  IN IF f = "ctor" \/ prev = {} THEN S1
     ELSE [S1 EXCEPT !.inst[S.nextId] =
             S.inst[CHOOSE i \in prev : \A j \in prev : j <= i]]

createDesertTankPlane(S, f) ==
  CreateCaught(S, "tslDesertTank", "desert-tank", f)

\* the new plane keeps the values of its constructor
CreateRayMarchingDefaults(S, f) ==
  IF f = "ctor"
  THEN [S EXCEPT !.threw = TRUE, !.log = @ \o <<Ev("throw", Null)>>]
  ELSE LET id == S.nextId
           S1 == SceneAdd(Construct(S, "raymarching"), id)
       IN IF f = "setup"
          THEN [S1 EXCEPT !.threw = TRUE, !.log = @ \o <<Ev("throw", id)>>]
          ELSE [S1 EXCEPT !.raymarchPlane = id,
                          !.listeners = @ \cup setupMouseInteraction(id),
                          !.log = @ \o <<Ev("setup", id)>>]

\* no try/catch; the handle is assigned last
createRayMarchingPlane(S, f) ==
  IF f = "ctor"
  THEN [S EXCEPT !.threw = TRUE, !.log = @ \o <<Ev("throw", Null)>>]
  ELSE LET id == S.nextId
           S1 == SceneAdd(Construct(S, "raymarching"), id)
       IN IF f = "setup"
          THEN [S1 EXCEPT !.threw = TRUE, !.log = @ \o <<Ev("throw", id)>>]
          ELSE [S1 EXCEPT !.raymarchPlane = id,
                          !.listeners = @ \cup setupMouseInteraction(id),
                          !.inst[id] = Set(Set(Set(Set(@, "radius", 2000),
                                         "maxSteps", 25), "surfaceDistance", 1),
                                         "timeMultiplier", 5000),
                          !.log = @ \o <<Ev("setup", id)>>]

\* the `switch (planeType)` of switchToPlane
CreateFor(S, planeType, f) ==
  CASE planeType = "wave" -> createWavePlane(S, f)
    [] planeType = "sdf" -> createSDFPlane(S, f)
    [] planeType = "desert-tank" -> createDesertTankPlane(S, f)
    [] planeType = "raymarching" -> createRayMarchingPlane(S, f)
    [] planeType = "none" -> S
    [] OTHER -> [S EXCEPT !.log = @ \o <<Ev("warn", Null)>>]

\* `this.currentActivePlane = planeType`, reached unless a creator threw
\* or the default branch returned
SetActive(S, planeType) ==
  IF S.threw \/ planeType \notin PlaneType
  THEN S
  ELSE [S EXCEPT !.currentActivePlane = planeType]

\* the new plane is created first, the old ones are torn down after it
SwitchCreateFirst(S, planeType, f) ==
  LET old == LiveOf(S)
      S0 == [S EXCEPT !.tslPlane = Null, !.tslPlaneSDF = Null,
                      !.tslDesertTank = Null, !.raymarchPlane = Null]
      S1 == CreateFor(S0, planeType, f)
      S2 == [S1 EXCEPT
               !.scene = @ \ old,
               !.disposeCount = [i \in DOMAIN @ |->
                                   IF i \in old THEN @[i] + 1 ELSE @[i]],
               !.log = @ \o (IF old = {} THEN <<>>
                             ELSE LET a == CHOOSE i \in old : TRUE
                                  IN <<Ev("remove", a), Ev("dispose", a)>>)]
  IN SetActive(S2, planeType)

\* an early return when the requested variant is already active
SwitchGuarded(S, planeType, f) ==
  IF planeType = S.currentActivePlane /\ LiveOf(S) # {}
  THEN S
  ELSE SetActive(CreateFor(cleanupCurrentPlane(S), planeType, f), planeType)

switchToPlane(S, planeType, f) ==
  SetActive(CreateFor(cleanupCurrentPlane(S), planeType, f), planeType)

\* a switch that constructs needs a free instance number
CanSwitch(planeType, f) ==
  /\ f \in FailModes(planeType)
  /\ (planeType \in PlaneType \ {"none"} /\ f # "ctor") => nextId <= MaxInstances

\* write a handler's result back to the engine's fields
Commit(S) ==
  /\ tslPlane' = S.tslPlane
  /\ tslPlaneSDF' = S.tslPlaneSDF
  /\ tslDesertTank' = S.tslDesertTank
  /\ raymarchPlane' = S.raymarchPlane
  /\ currentActivePlane' = S.currentActivePlane
  /\ scene' = S.scene
  /\ kindOf' = S.kindOf
  /\ disposeCount' = S.disposeCount
  /\ nextId' = S.nextId
  /\ inst' = S.inst
  /\ listeners' = S.listeners
  /\ log' = S.log

Last(op, tag, f, S) ==
  [op |-> op, tag |-> tag, fail |-> f,
   outcome |-> IF S.threw THEN "threw" ELSE "returned",
   prevTag |-> currentActivePlane, prevLive |-> LiveHandles, arg |-> <<>>]

NoCall ==
  [op |-> "none", tag |-> "none", fail |-> "none", outcome |-> "returned",
   prevTag |-> "none", prevLive |-> {}, arg |-> <<>>]

lifeVars == <<tslPlane, tslPlaneSDF, tslDesertTank, raymarchPlane,
              currentActivePlane, scene, kindOf, disposeCount, nextId, inst,
              listeners, log>>

\* what no switch changes
envVars == <<tsl, clock, rendererSize>>

\* ------------------------------------------------------------------ Init
Browsers == [gpu : Capability, gl2 : Capability, base : {"fails", "ok"}]

\* one browser for each tier negotiation can end on
TierBrowsers ==
  {[gpu |-> "ok", gl2 |-> "ok", base |-> "ok"],
   [gpu |-> "absent", gl2 |-> "ok", base |-> "ok"],
   [gpu |-> "absent", gl2 |-> "absent", base |-> "ok"]}

\* the page before the engine constructor's body runs
Start(browsers, outcomes) ==
  /\ env \in browsers
  /\ tsl \in outcomes
  /\ negState = "Start"
  /\ attempts = <<>>
  /\ renderer = "none"
  /\ rendererConfigured = FALSE
  /\ phase = "initThree"
  /\ guiCreated = FALSE
  /\ guiActivePlane = "none"
  /\ tslPlane = Null
  /\ tslPlaneSDF = Null
  /\ tslDesertTank = Null
  /\ raymarchPlane = Null
  /\ currentActivePlane = "none"
  /\ scene = {}
  /\ kindOf = [i \in Ids |-> "none"]
  /\ disposeCount = [i \in Ids |-> 0]
  /\ nextId = 1
  /\ log = <<>>
  /\ last = NoCall
  /\ rendered = FALSE
  /\ inst = [i \in Ids |-> NoInst]
  /\ listeners = {}
  /\ clock = 0
  /\ rendererSize = <<0, 0>>

\* the engine's lifecycle fields before the constructor's body runs
EngStart(t) ==
  [tslPlane |-> Null, tslPlaneSDF |-> Null, tslDesertTank |-> Null,
   raymarchPlane |-> Null, currentActivePlane |-> "none", scene |-> {},
   kindOf |-> [i \in Ids |-> "none"], disposeCount |-> [i \in Ids |-> 0],
   nextId |-> 1, inst |-> [i \in Ids |-> NoInst], listeners |-> {}, tsl |-> t,
   log |-> <<>>, threw |-> FALSE]

\* the engine a WebGPU browser holds when `new ThreeEngine(...)` has
\* returned and no plane constructor threw: the panel's "wave" plane was
\* created and torn down, the raymarching plane is live
AfterConstructor(outcomes) ==
  \E t \in outcomes :
    LET S1 == switchToPlane(EngStart(t), "wave", "none")
        S2 == switchToPlane([S1 EXCEPT !.log = <<>>], "raymarching", "none")
    IN /\ env = [gpu |-> "ok", gl2 |-> "ok", base |-> "ok"]
       /\ tsl = t
       /\ negState = "Ready"
       /\ attempts = <<"PreferredGPU">>
       /\ renderer = "PreferredGPU"
       /\ rendererConfigured = FALSE
       /\ phase = "constructed"
       /\ guiCreated = TRUE
       /\ guiActivePlane = "wave"
       /\ tslPlane = S2.tslPlane
       /\ tslPlaneSDF = S2.tslPlaneSDF
       /\ tslDesertTank = S2.tslDesertTank
       /\ raymarchPlane = S2.raymarchPlane
       /\ currentActivePlane = S2.currentActivePlane
       /\ scene = S2.scene
       /\ kindOf = S2.kindOf
       /\ disposeCount = S2.disposeCount
       /\ nextId = S2.nextId
       /\ log = S2.log
       /\ last = [op |-> "switch", tag |-> "raymarching", fail |-> "none",
                  outcome |-> "returned", prevTag |-> S1.currentActivePlane,
                  prevLive |-> LiveOf(S1), arg |-> <<>>]
       /\ rendered = FALSE
       /\ inst = S2.inst
       /\ listeners = S2.listeners
       /\ clock = 0
       /\ rendererSize = <<0, 0>>

\* every browser, with the node materials building
Init == Start(Browsers, {"ok"})

\* one browser per tier, with every outcome of node-material creation
InitPlay == Start(TierBrowsers, TslOutcome)

\* --------------------------------------------------- renderer negotiation
restVars == <<phase, guiCreated, guiActivePlane, tslPlane, tslPlaneSDF,
              tslDesertTank, raymarchPlane, currentActivePlane, scene, kindOf,
              disposeCount, nextId, log, last, rendered, tsl, inst, listeners,
              clock, rendererSize>>

\* scene, camera and canvas are created; the webgpu path is entered
InitThreeBegin ==
  /\ phase = "initThree" /\ negState = "Start"
  /\ forceRenderer = "webgpu"
  /\ negState' = "TryPreferred"
  /\ UNCHANGED <<env, attempts, renderer, rendererConfigured>>
  /\ UNCHANGED restVars

TryPreferredRetry ==
  /\ phase = "initThree" /\ negState = "TryPreferred"
  /\ IF env.gpu = "absent"
     THEN /\ negState' = "TrySecondary"
          /\ UNCHANGED <<attempts, renderer>>
     ELSE /\ attempts' = Append(attempts, "PreferredGPU")
          /\ IF env.gpu = "ok"
             THEN negState' = "Ready" /\ renderer' = "PreferredGPU"
             ELSE /\ negState' = IF Len(attempts) < 1 THEN "TryPreferred"
                                 ELSE "TrySecondary"
                  /\ UNCHANGED renderer
  /\ UNCHANGED <<env, rendererConfigured>>
  /\ UNCHANGED restVars

\* `if (navigator.gpu) { try { new WebGPURenderer; return } catch {} }`
TryPreferred ==
  /\ phase = "initThree" /\ negState = "TryPreferred"
  /\ IF env.gpu = "absent"
     THEN /\ negState' = "TrySecondary"
          /\ UNCHANGED <<attempts, renderer>>
     ELSE /\ attempts' = Append(attempts, "PreferredGPU")
          /\ IF env.gpu = "ok"
             THEN negState' = "Ready" /\ renderer' = "PreferredGPU"
             ELSE negState' = "TrySecondary" /\ UNCHANGED renderer
  /\ UNCHANGED <<env, rendererConfigured>>
  /\ UNCHANGED restVars

TrySecondarySkipped ==
  /\ phase = "initThree" /\ negState = "TrySecondary"
  /\ negState' = "TryBaseline"
  /\ UNCHANGED <<env, attempts, renderer, rendererConfigured>>
  /\ UNCHANGED restVars

\* `gl2 = canvas.getContext("webgl2"); if (gl2) { try { ...; return } ... }`
TrySecondary ==
  /\ phase = "initThree" /\ negState = "TrySecondary"
  /\ IF env.gl2 = "absent"
     THEN /\ negState' = "TryBaseline"
          /\ UNCHANGED <<attempts, renderer>>
     ELSE /\ attempts' = Append(attempts, "SecondaryGPU")
          /\ IF env.gl2 = "ok"
             THEN negState' = "Ready" /\ renderer' = "SecondaryGPU"
             ELSE negState' = "TryBaseline" /\ UNCHANGED renderer
  /\ UNCHANGED <<env, rendererConfigured>>
  /\ UNCHANGED restVars

TryBaselineSwallow ==
  /\ phase = "initThree" /\ negState = "TryBaseline"
  /\ attempts' = Append(attempts, "Baseline")
  /\ negState' = IF env.base = "ok" THEN "Ready" ELSE "Fatal"
  /\ renderer' = IF env.base = "ok" THEN "Baseline" ELSE "none"
  /\ rendererConfigured' = (env.base = "ok")
  /\ rendererSize' = IF env.base = "ok" THEN WindowSize ELSE rendererSize
  /\ UNCHANGED env
  /\ UNCHANGED <<phase, guiCreated, guiActivePlane, last, rendered, tsl, clock>>
  /\ UNCHANGED lifeVars

\* the unguarded `new THREE.WebGLRenderer`, then setSize / setClearColor;
\* a throw leaves initThree and the engine constructor
TryBaseline ==
  /\ phase = "initThree" /\ negState = "TryBaseline"
  /\ attempts' = Append(attempts, "Baseline")
  /\ IF env.base = "ok"
     THEN /\ negState' = "Ready"
          /\ renderer' = "Baseline"
          /\ rendererConfigured' = TRUE
          /\ rendererSize' = WindowSize
          /\ UNCHANGED phase
     ELSE /\ negState' = "Fatal"
          /\ phase' = "threw"
          /\ UNCHANGED <<renderer, rendererConfigured, rendererSize>>
  /\ UNCHANGED env
  /\ UNCHANGED <<guiCreated, guiActivePlane, last, rendered, tsl, clock>>
  /\ UNCHANGED lifeVars

\* ------------------------------------------------ rest of the constructor
\* initThree is over and did not throw (phase is still "initThree"):
\* initLights, initGrid, initControls, then initGUI, whose GUIView
\* constructor selects "wave" through setActivePlane
InitGUI ==
  /\ phase = "initThree" /\ negState \in {"Ready", "Fatal"}
  /\ \E f \in FailModes("wave") :
       LET S == switchToPlane(Eng, "wave", f)
       IN /\ CanSwitch("wave", f)
          /\ Commit(S)
          /\ last' = Last("switch", "wave", f, S)
  /\ guiCreated' = TRUE
  /\ guiActivePlane' = "wave"
  /\ phase' = "startSwitch"
  /\ UNCHANGED negVars
  /\ UNCHANGED envVars
  /\ UNCHANGED rendered

\* `this.switchToPlane("raymarching")`, the constructor's last statement
StartSwitch ==
  /\ phase = "startSwitch"
  /\ \E f \in FailModes("raymarching") :
       LET S == switchToPlane(Eng, "raymarching", f)
       IN /\ CanSwitch("raymarching", f)
          /\ Commit(S)
          /\ last' = Last("switch", "raymarching", f, S)
          /\ phase' = IF S.threw THEN "threw" ELSE "constructed"
  /\ UNCHANGED negVars
  /\ UNCHANGED envVars
  /\ UNCHANGED <<guiCreated, guiActivePlane, rendered>>

\* ------------------------------------------------------------- handlers
Idle == phase \in {"constructed", "threw"}

\* a button click: GUIView.setActivePlane -> onPlaneChange -> switchToPlane
Click(planeType, f) ==
  /\ Idle /\ guiCreated
  /\ planeType \in PlaneType
  /\ CanSwitch(planeType, f)
  /\ LET S == switchToPlane(Eng, planeType, f)
     IN Commit(S) /\ last' = Last("switch", planeType, f, S)
  /\ guiActivePlane' = planeType
  /\ UNCHANGED negVars
  /\ UNCHANGED envVars
  /\ UNCHANGED <<phase, guiCreated, rendered>>

\* the public onPlaneChange called with a tag outside PlaneType
OnPlaneChange(planeType) ==
  /\ Idle /\ guiCreated
  /\ planeType = UnknownTag
  /\ LET S == switchToPlane(Eng, planeType, "none")
     IN Commit(S) /\ last' = Last("switch", planeType, "none", S)
  /\ UNCHANGED negVars
  /\ UNCHANGED envVars
  /\ UNCHANGED <<phase, guiCreated, guiActivePlane, rendered>>

\* `this.renderer.render(this.scene, this.camera)`, on a constructed engine
Render ==
  /\ phase = "constructed"
  /\ rendered' = TRUE
  /\ UNCHANGED negVars
  /\ UNCHANGED envVars
  /\ UNCHANGED <<phase, guiCreated, guiActivePlane, last>>
  /\ UNCHANGED lifeVars

\* a handler other than a switch: what ran and the state before it
Handled(op, arg) ==
  [NoCall EXCEPT !.op = op, !.prevTag = currentActivePlane,
                 !.prevLive = LiveHandles, !.arg = arg]

WheelX(I) == Get(I, "wheelOffset", <<-10 * PosScale, 0>>)[1]

\* the model follows the vehicle MaxMove steps from its start and a
\* fallback time uniform up to MaxClock
InRange(kind, I) ==
  /\ kind = "desert-tank" =>
       WheelX(I) + 10 * PosScale \in
         (0 - MaxMove * LateralStep)..(MaxMove * LateralStep)
  /\ HasTime(I) => I.mat.uTime <= MaxClock

\* every constructed plane is updated, live or not
UpdateEveryPlane(currentTime, deltaTime) ==
  [i \in Ids |->
     CASE kindOf[i] = "sdf" -> updateTime(inst[i], currentTime)
       [] kindOf[i] = "desert-tank" -> updateTank(inst[i], deltaTime)
       [] kindOf[i] = "raymarching" -> updateTime(inst[i], deltaTime)
       [] OTHER -> inst[i]]

\* the plane-update `switch (this.currentActivePlane)` of ThreeEngine.update
UpdateActive(currentTime, deltaTime) ==
  CASE currentActivePlane = "sdf" /\ tslPlaneSDF # Null ->
         [inst EXCEPT ![tslPlaneSDF] = updateTime(@, currentTime)]
    [] currentActivePlane = "desert-tank" /\ tslDesertTank # Null ->
         [inst EXCEPT ![tslDesertTank] = updateTank(@, deltaTime)]
    [] currentActivePlane = "raymarching" /\ raymarchPlane # Null ->
         [inst EXCEPT ![raymarchPlane] = updateTime(@, deltaTime)]
    [] OTHER -> inst

\* ThreeEngine.update: one frame; the clock has advanced by d frames
Update(d) ==
  /\ phase = "constructed"
  /\ clock + d <= MaxClock
  /\ clock' = clock + d
  /\ inst' = UpdateActive(clock + d, DeltaTime)
  /\ \A i \in Ids : InRange(kindOf[i], inst'[i])
  /\ last' = Handled("update", <<>>)
  /\ log' = <<>>
  /\ UNCHANGED negVars
  /\ UNCHANGED <<phase, guiCreated, guiActivePlane, rendered, tsl, rendererSize,
                 listeners, tslPlane, tslPlaneSDF, tslDesertTank, raymarchPlane,
                 currentActivePlane, scene, kindOf, disposeCount, nextId>>

\* resize builds a baseline renderer for the new size
ResizeRenegotiates(size) ==
  /\ phase = "constructed"
  /\ rendererSize' = size
  /\ renderer' = "Baseline"
  /\ last' = Handled("resize", size)
  /\ log' = <<>>
  /\ UNCHANGED <<env, negState, attempts, rendererConfigured>>
  /\ UNCHANGED <<phase, guiCreated, guiActivePlane, rendered, tsl, clock>>
  /\ UNCHANGED <<tslPlane, tslPlaneSDF, tslDesertTank, raymarchPlane,
                 currentActivePlane, scene, kindOf, disposeCount, nextId, inst,
                 listeners>>

\* resize also rebuilds the material of the live vehicle
ResizeRebuildsMaterial(size) ==
  /\ phase = "constructed"
  /\ renderer # "none"
  /\ rendererSize' = size
  /\ inst' = IF tslDesertTank # Null
             THEN [inst EXCEPT ![tslDesertTank] = NewInst("desert-tank", tsl)]
             ELSE inst
  /\ last' = Handled("resize", size)
  /\ log' = <<>>
  /\ UNCHANGED negVars
  /\ UNCHANGED <<phase, guiCreated, guiActivePlane, rendered, tsl, clock>>
  /\ UNCHANGED <<tslPlane, tslPlaneSDF, tslDesertTank, raymarchPlane,
                 currentActivePlane, scene, kindOf, disposeCount, nextId,
                 listeners>>

\* ThreeEngine.resize(vw, vh): camera aspect and renderer.setSize; the two
\* shader materials it would update are never created
Resize(size) ==
  /\ phase = "constructed"
  /\ renderer # "none"
  /\ rendererSize' = size
  /\ last' = Handled("resize", size)
  /\ log' = <<>>
  /\ UNCHANGED negVars
  /\ UNCHANGED <<phase, guiCreated, guiActivePlane, rendered, tsl, clock>>
  /\ UNCHANGED <<tslPlane, tslPlaneSDF, tslDesertTank, raymarchPlane,
                 currentActivePlane, scene, kindOf, disposeCount, nextId, inst,
                 listeners>>

\* ThreeEngine.dispose: cleanupCurrentPlane, then the button panel is removed
Dispose ==
  /\ phase = "constructed"
  /\ LET S == cleanupCurrentPlane(Eng)
     IN Commit(S)
  /\ last' = Handled("dispose", <<>>)
  /\ guiCreated' = FALSE
  /\ UNCHANGED negVars
  /\ UNCHANGED envVars
  /\ UNCHANGED <<phase, guiActivePlane, rendered>>

\* a keydown or keyup on the document runs every registered onDocumentKey:
\* `this.keyMap[e.code] = e.type === "keydown"`
KeyEvent(code, type) ==
  /\ Idle
  /\ \E l \in listeners : l.target = "document" /\ l.type = type
  /\ inst' = [i \in Ids |->
               IF Listener("document", type, "onDocumentKey", i) \in listeners
               THEN [inst[i] EXCEPT !.keyMap =
                       IF type = "keydown" THEN @ \cup {code} ELSE @ \ {code}]
               ELSE inst[i]]
  /\ last' = Handled("key", <<>>)
  /\ log' = <<>>
  /\ UNCHANGED negVars
  /\ UNCHANGED <<phase, guiCreated, guiActivePlane, rendered, tsl, clock,
                 rendererSize, listeners, tslPlane, tslPlaneSDF, tslDesertTank,
                 raymarchPlane, currentActivePlane, scene, kindOf, disposeCount,
                 nextId>>

Next ==
  \/ InitThreeBegin
  \/ TryPreferred
  \/ TrySecondary
  \/ TryBaseline
  \/ InitGUI
  \/ StartSwitch
  \/ \E t \in PlaneType : \E f \in FailModes(t) : Click(t, f)
  \/ OnPlaneChange(UnknownTag)
  \/ Render

Spec == Init /\ [][Next]_vars

\* the constructor, the buttons of PlayTags, and the handlers that drive
\* a constructed engine
NextPlay ==
  \/ InitThreeBegin
  \/ TryPreferred
  \/ TrySecondary
  \/ TryBaseline
  \/ InitGUI
  \/ StartSwitch
  \/ \E t \in PlayTags : \E f \in FailModes(t) : Click(t, f)
  \/ \E d \in {0, 1} : Update(d)
  \/ \E size \in Sizes : Resize(size)
  \/ Dispose
  \/ \E code \in KeyCodes : \E type \in {"keydown", "keyup"} : KeyEvent(code, type)
  \/ Render

SpecPlay == InitPlay /\ [][NextPlay]_vars

\* requestAnimationFrame delivers a frame of a jump in flight on plane i,
\* d steps after the frame before it
JumpFrame(i, d) ==
  /\ Idle
  /\ inst[i].jumpAnims > 0
  /\ inst' = [inst EXCEPT ![i] = animateJump(@, @.jumpElapsed + d)]
  /\ last' = Handled("jumpFrame", <<i>>)
  /\ log' = <<>>
  /\ UNCHANGED negVars
  /\ UNCHANGED <<phase, guiCreated, guiActivePlane, rendered, tsl, clock,
                 rendererSize, listeners, tslPlane, tslPlaneSDF, tslDesertTank,
                 raymarchPlane, currentActivePlane, scene, kindOf, disposeCount,
                 nextId>>

\* requestAnimationFrame delivers a frame of a shot in flight on plane i
ShootFrame(i, d) ==
  /\ Idle
  /\ inst[i].shootAnims > 0
  /\ inst' = [inst EXCEPT ![i] = animateShoot(@, @.shootElapsed + d)]
  /\ last' = Handled("shootFrame", <<i>>)
  /\ log' = <<>>
  /\ UNCHANGED negVars
  /\ UNCHANGED <<phase, guiCreated, guiActivePlane, rendered, tsl, clock,
                 rendererSize, listeners, tslPlane, tslPlaneSDF, tslDesertTank,
                 raymarchPlane, currentActivePlane, scene, kindOf, disposeCount,
                 nextId>>

\* a constructed engine on which the vehicle is selected, steered and made
\* to jump
NextJump ==
  \/ \E t \in {"desert-tank", "none"} : \E f \in FailModes(t) : Click(t, f)
  \/ \E d \in {0, 1} : Update(d)
  \/ \E code \in JumpKeys : \E type \in {"keydown", "keyup"} : KeyEvent(code, type)
  \/ \E i \in Ids : \E d \in FrameGaps : JumpFrame(i, d)

SpecJump == AfterConstructor(TslOutcome) /\ [][NextJump]_vars

\* animation frames keep being delivered
SpecJumpFair ==
  SpecJump /\ \A i \in Ids : WF_vars(\E d \in FrameGaps : JumpFrame(i, d))

\* a constructed engine on which the vehicle is selected and fires
NextShoot ==
  \/ \E t \in {"desert-tank", "none"} : \E f \in FailModes(t) : Click(t, f)
  \/ \E d \in {0, 1} : Update(d)
  \/ \E code \in ShootKeys : \E type \in {"keydown", "keyup"} : KeyEvent(code, type)
  \/ \E i \in Ids : \E d \in FrameGaps : ShootFrame(i, d)

SpecShoot == AfterConstructor(TslOutcome) /\ [][NextShoot]_vars

\* a pointermove on the canvas runs every registered onPointerMove; each
\* casts the same ray at its own mesh, and every mesh has the same place
PointerMove(intersects) ==
  /\ Idle
  /\ \E l \in listeners : l.target = "canvas" /\ l.type = "pointermove"
  /\ inst' = [i \in Ids |->
               IF Listener("canvas", "pointermove", "onPointerMove", i) \in listeners
               THEN onPointerMove(inst[i], intersects)
               ELSE inst[i]]
  /\ last' = Handled("pointerMove", intersects)
  /\ log' = <<>>
  /\ UNCHANGED negVars
  /\ UNCHANGED <<phase, guiCreated, guiActivePlane, rendered, tsl, clock,
                 rendererSize, listeners, tslPlane, tslPlaneSDF, tslDesertTank,
                 raymarchPlane, currentActivePlane, scene, kindOf, disposeCount,
                 nextId>>

\* a pointerdown on the canvas runs every registered onPointerDown
PointerDown ==
  /\ Idle
  /\ \E l \in listeners : l.target = "canvas" /\ l.type = "pointerdown"
  /\ inst' = [i \in Ids |->
               IF Listener("canvas", "pointerdown", "onPointerDown", i) \in listeners
               THEN onPointerDown(inst[i])
               ELSE inst[i]]
  /\ last' = Handled("pointerDown", <<>>)
  /\ log' = <<>>
  /\ UNCHANGED negVars
  /\ UNCHANGED <<phase, guiCreated, guiActivePlane, rendered, tsl, clock,
                 rendererSize, listeners, tslPlane, tslPlaneSDF, tslDesertTank,
                 raymarchPlane, currentActivePlane, scene, kindOf, disposeCount,
                 nextId>>

\* a constructed engine on which the ray is dragged with the pointer
NextRay ==
  \/ \E t \in {"raymarching", "none"} : \E f \in FailModes(t) : Click(t, f)
  \/ \E d \in {0, 1} : Update(d)
  \/ \E intersects \in Intersections : PointerMove(intersects)
  \/ PointerDown

SpecRay == AfterConstructor(TslOutcome) /\ [][NextRay]_vars

\* the lifecycle with every button, and engine shutdown
NextLife ==
  \/ Next
  \/ Dispose

SpecLife == Start(TierBrowsers, {"ok"}) /\ [][NextLife]_vars

TypeOK ==
  /\ negState \in {"Start", "TryPreferred", "TrySecondary", "TryBaseline",
                   "Ready", "Fatal"}
  /\ phase \in {"initThree", "startSwitch", "constructed", "threw"}
  /\ renderer \in {"none", "PreferredGPU", "SecondaryGPU", "Baseline"}
  /\ currentActivePlane \in PlaneType
  /\ {tslPlane, tslPlaneSDF, tslDesertTank, raymarchPlane} \subseteq Ids \cup {Null}
  /\ scene \subseteq Ids
  /\ nextId \in 1..(MaxInstances + 1)

\* ------------------------------------------------------------ properties
NonNullHandles == {i \in 1..4 : Eng[HandleNames[i]] # Null}

SwitchDone == last.op = "switch"

Constructed == {log[i].id : i \in {j \in DOMAIN log : log[j].op = "construct"}}

Pos(e) == {i \in DOMAIN log : log[i] = e}

\* C1: between calls at most one of the four plane handles is non-null, and
\* a non-null handle refers to a constructed plane that was never disposed.
C1_AtMostOneLive ==
  /\ Cardinality(NonNullHandles) <= 1
  /\ \A a \in LiveHandles : kindOf[a] # "none" /\ disposeCount[a] = 0

C1_Witness ==
  /\ SwitchDone
  /\ Cardinality(last.prevLive) = 1
  /\ Cardinality(NonNullHandles) = 1
  /\ last.prevLive # LiveHandles

\* C2: in a switch that constructs a plane, every plane that was live when
\* the switch began had its mesh removed and was disposed before the
\* constructor ran, so the two are never undisposed together.
C2_TeardownBeforeCreate ==
  SwitchDone =>
    \A i \in DOMAIN log : log[i].op = "construct" =>
      \A a \in last.prevLive :
        /\ \E j \in Pos(Ev("remove", a)) : j < i
        /\ \E k \in Pos(Ev("dispose", a)) : k < i
        /\ disposeCount[a] >= 1

C2_Witness ==
  /\ SwitchDone
  /\ last.prevLive # {}
  /\ Constructed # {}
  /\ last.tag # last.prevTag

SameTagSwitch ==
  /\ SwitchDone
  /\ last.tag = last.prevTag
  /\ last.tag # "none"
  /\ last.prevLive # {}

\* C3 as stated: a switch to the variant that is already active disposes
\* nothing, constructs nothing and leaves the live handles as they were.
C3_SameTagNoOp ==
  SameTagSwitch =>
    /\ LiveHandles = last.prevLive
    /\ \A a \in last.prevLive : disposeCount[a] = 0
    /\ Constructed = {}

\* C3 amended: a switch to the variant that is already active removes and
\* disposes the live plane once and keeps the tag; at most one handle is
\* live afterwards, and when construction succeeds it is exactly one, a
\* newly constructed plane of the same variant attached to the scene.
C3_SameTagRecreates ==
  SameTagSwitch =>
    /\ currentActivePlane = last.tag
    /\ \A a \in last.prevLive :
         disposeCount[a] = 1 /\ a \notin scene /\ a \notin LiveHandles
    /\ Cardinality(NonNullHandles) <= 1
    /\ last.fail = "none" =>
         /\ Cardinality(NonNullHandles) = 1
         /\ LiveHandles \subseteq Constructed
         /\ \A b \in LiveHandles : kindOf[b] = last.tag /\ b \in scene

C3_Witness ==
  /\ SameTagSwitch
  /\ last.fail = "none"
  /\ Cardinality(NonNullHandles) = 1

\* C4: a request with an unknown tag leaves the tag, the live handle, its
\* mesh's attachment to the scene and its undisposed resources unchanged.
C4_UnknownTagUnchanged ==
  (SwitchDone /\ last.tag \notin PlaneType) =>
    /\ currentActivePlane = last.prevTag
    /\ LiveHandles = last.prevLive
    /\ \A a \in last.prevLive : a \in scene /\ disposeCount[a] = 0

\* C5: when construction throws during a switch the tag ends as none and
\* no plane handle is live.
C5_FailureEndsIdle ==
  (SwitchDone /\ last.fail # "none") =>
    /\ currentActivePlane = "none"
    /\ LiveHandles = {}

\* C6: when a step of building the new variant throws, no mesh of the
\* plane being built remains in the scene.
C6_NoPartialMesh ==
  (SwitchDone /\ last.fail # "none") =>
    \A id \in Constructed : id \notin scene

\* C7: a construction failure is never fatal: the switch returns normally
\* and the engine constructor does not throw because of it.
C7_FailureNotFatal ==
  /\ (SwitchDone /\ last.fail # "none") => last.outcome = "returned"
  /\ phase = "threw" => negState = "Fatal"

\* the tier the claim expects for a browser
ExpectedTier(e) ==
  IF e.gpu = "ok" THEN "PreferredGPU"
  ELSE IF e.gl2 = "ok" THEN "SecondaryGPU"
  ELSE "Baseline"

\* C8: a finished negotiation holds the highest-priority tier that works:
\* preferred iff its probe is present and its renderer constructs, else
\* secondary iff a webgl2 context is obtained and its renderer constructs,
\* else baseline; and a renderer exists only when negotiation is Ready.
C8_TierSelection ==
  /\ negState = "Ready" => renderer = ExpectedTier(env)
  /\ renderer # "none" => negState = "Ready"

C8_Witness ==
  /\ negState = "Ready"
  /\ env.gpu # "ok" /\ env.gl2 = "ok"
  /\ renderer = "SecondaryGPU"

TierRank(t) ==
  CASE t = "PreferredGPU" -> 1 [] t = "SecondaryGPU" -> 2 [] t = "Baseline" -> 3

\* C9: the tiers are attempted in the order preferred, secondary, baseline,
\* each at most once, and the tier that succeeded is the last one attempted.
C9_AttemptOrder ==
  /\ \A i, j \in DOMAIN attempts :
       i < j => TierRank(attempts[i]) < TierRank(attempts[j])
  /\ renderer # "none" => attempts[Len(attempts)] = renderer

C9_Witness ==
  /\ negState = "Ready"
  /\ attempts = <<"PreferredGPU", "SecondaryGPU", "Baseline">>

\* C10: when the baseline tier fails the engine constructor throws, the
\* button panel is never created, no variant is ever activated and no frame
\* is ever rendered; no frame is rendered without a renderer.
C10_FatalHaltsStartup ==
  /\ negState = "Fatal" =>
       /\ phase = "threw"
       /\ ~guiCreated
       /\ currentActivePlane = "none"
       /\ LiveHandles = {} /\ scene = {} /\ nextId = 1
       /\ ~rendered
  /\ rendered => renderer # "none"

C10_Witness ==
  /\ negState = "Fatal"
  /\ phase = "threw"
  /\ attempts # <<>>
  /\ attempts[Len(attempts)] = "Baseline"

\* ------------------------------------------- properties of the driven engine
NegotiationOver == negState \in {"Ready", "Fatal"}

\* C11: once negotiation has ended (on a tier or fatally) no step of the
\* program - a switch, an update, a render, a resize, a dispose, a failed
\* construction - attempts a renderer again or replaces the renderer
C11_NegotiationOnce ==
  [][NegotiationOver => UNCHANGED <<negState, attempts, renderer>>]_vars

\* a secondary-tier engine that was resized, updated, rendered and disposed
\* after planes were torn down
C11_Witness ==
  /\ renderer = "SecondaryGPU"
  /\ last.op = "dispose"
  /\ rendererSize \in Sizes
  /\ clock > 0
  /\ rendered
  /\ \E i \in Ids : disposeCount[i] > 0

\* the listeners the live planes registered
ListenersOfLive ==
  (IF tslDesertTank # Null THEN initControls(tslDesertTank) ELSE {})
  \cup (IF raymarchPlane # Null THEN setupMouseInteraction(raymarchPlane) ELSE {})

\* C12: teardown unregisters every input listener the variant registered:
\* between handlers the registered listeners are exactly those of the live
\* plane, and there are none when no plane is live
C12_ListenersOfActiveOnly == listeners = ListenersOfLive

TornDown == {i \in Ids : disposeCount[i] > 0}

\* C13: no step changes a uniform, a material uniform or the input state of
\* a plane that was torn down before the step
C13_TornDownFrozen ==
  [][\A i \in TornDown : inst'[i] = inst[i]]_vars

\* the last handler was a switch to planeType whose creator returned normally
Activated(planeType) ==
  /\ last.op = "switch" /\ last.tag = planeType /\ last.fail = "none"

C17_SdfDefaults ==
  Activated("sdf") =>
    /\ Get(inst[tslPlaneSDF], "radius", 2500) = 2500
    /\ Get(inst[tslPlaneSDF], "fade", 15000) = 15000

\* C17: after a switch activated the distance-field plane it reads the
\* values createSDFPlane assigns, radius 0.3 and fade 2.0
C17_SdfOverridden ==
  Activated("sdf") =>
    /\ tslPlaneSDF # Null
    /\ Get(inst[tslPlaneSDF], "radius", 2500) = 3000
    /\ Get(inst[tslPlaneSDF], "fade", 15000) = 20000

\* the distance-field plane was activated after another plane of its kind
C17_Witness ==
  /\ Activated("sdf")
  /\ last.prevTag = "sdf"
  /\ tslPlaneSDF # Null

\* C15: after a switch to "none", from whatever state, the tag is "none", no
\* plane handle is live and no plane's mesh is in the scene
C15_NoneEmptiesScene ==
  Activated("none") =>
    /\ currentActivePlane = "none"
    /\ LiveHandles = {}
    /\ scene = {}

\* the value of a plane's resolution uniform, <<>> if it has none
ResolutionOf(I) ==
  IF "resolution" \in DOMAIN I.uni THEN I.uni.resolution
  ELSE IF "uResolution" \in DOMAIN I.mat THEN I.mat.uResolution
  ELSE <<>>

ResizedVehicle ==
  /\ last.op = "resize"
  /\ currentActivePlane = "desert-tank"
  /\ tslDesertTank # Null

\* C16 as claimed: after resize(w, h) with the vehicle active, the vehicle's
\* resolution uniform reads (w, h)
C16_ResolutionUniformSet ==
  ResizedVehicle => ResolutionOf(inst[tslDesertTank]) = last.arg

\* C16: a resize(w, h) with the vehicle active sets the renderer's size to
\* (w, h) and changes none of the vehicle's uniforms or input state; the
\* vehicle has no resolution uniform
C16_ResizeKeepsVehicle ==
  [][ResizedVehicle' =>
       /\ rendererSize' = last'.arg
       /\ inst'[tslDesertTank] = inst[tslDesertTank]
       /\ ResolutionOf(inst'[tslDesertTank]) = <<>>]_vars

\* a vehicle that had moved from its start was resized
C16_Witness ==
  /\ ResizedVehicle
  /\ rendererSize = last.arg
  /\ rendererSize # WindowSize
  /\ WheelX(inst[tslDesertTank]) # -10 * PosScale

C19_TimeAdvances ==
  [][\A i \in LiveHandles :
       (i \in LiveHandles' /\ HasTime(inst[i])) =>
         /\ inst'[i].mat.uTime >= inst[i].mat.uTime
         /\ clock' > clock => inst'[i].mat.uTime > inst[i].mat.uTime]_vars

\* C20: after dispose() no plane handle is live, no plane's mesh is in the
\* scene and the tag is "none"; no plane has been disposed twice, so a
\* second dispose() released nothing again
C20_DisposeReleasesAll ==
  last.op = "dispose" =>
    /\ LiveHandles = {}
    /\ scene = {}
    /\ currentActivePlane = "none"
    /\ \A i \in Ids : disposeCount[i] <= 1

\* the handle the switch of update() reads for the current tag
ActiveHandle ==
  CASE currentActivePlane = "wave" -> tslPlane
    [] currentActivePlane = "sdf" -> tslPlaneSDF
    [] currentActivePlane = "desert-tank" -> tslDesertTank
    [] currentActivePlane = "raymarching" -> raymarchPlane
    [] OTHER -> Null

\* C21: a frame update changes neither the tag nor a plane handle, and the
\* only plane whose state it may change is the live plane of the tag's kind;
\* with the tag "none" it changes no plane
C21_UpdateOnlyActivePlane ==
  [][last'.op = "update" =>
       /\ currentActivePlane' = currentActivePlane
       /\ <<tslPlane, tslPlaneSDF, tslDesertTank, raymarchPlane>>' =
            <<tslPlane, tslPlaneSDF, tslDesertTank, raymarchPlane>>
       /\ <<scene, kindOf, disposeCount, nextId, listeners>>' =
            <<scene, kindOf, disposeCount, nextId, listeners>>
       /\ \A i \in Ids :
            inst'[i] # inst[i] =>
              /\ i = ActiveHandle
              /\ kindOf[i] = currentActivePlane]_vars

\* a frame moved the live vehicle while a torn-down plane with a time
\* uniform of its own exists
C21_Witness ==
  /\ last.op = "update"
  /\ currentActivePlane = "desert-tank"
  /\ tslDesertTank # Null
  /\ WheelX(inst[tslDesertTank]) # -10 * PosScale
  /\ \E i \in TornDown : HasTime(inst[i])

\* C26: between engine operations the tag agrees with the handles: it is
\* "none" exactly when all four handles are null, and otherwise the handle
\* of the tag's kind is the one live handle
C26_TagAgreesWithHandles ==
  Idle =>
    /\ currentActivePlane = "none" <=> LiveHandles = {}
    /\ currentActivePlane # "none" =>
         /\ ActiveHandle # Null
         /\ NonNullHandles = {i \in 1..4 : Eng[HandleNames[i]] = ActiveHandle}

\* C27: when negotiation has ended on a tier, setSize and setClearColor
\* have been applied to the renderer
C27_ConfiguredOnEveryTier ==
  negState = "Ready" => (rendererConfigured /\ rendererSize = WindowSize)

\* C29: on a constructed engine the plane type the button panel reports
\* equals the engine's active variant
C29_PanelAgreesWithEngine ==
  (phase = "constructed" /\ guiCreated) => guiActivePlane = currentActivePlane

\* the value of parameter n in the material bound to the mesh: the fallback
\* ShaderMaterial's uniform when that material was built, else the TSL
\* uniform referenced by the node material
BoundValue(I, n) ==
  IF I.hasMat THEN I.mat[MatName(n)] ELSE I.uni[n]

\* C28: after the engine's setter calls on a newly activated plane, the
\* material bound to the mesh holds the values that were set, with the node
\* material and with the fallback material
C28_SetterReachesBoundMaterial ==
  /\ Activated("raymarching") =>
       /\ BoundValue(inst[raymarchPlane], "radius") = 2000
       /\ BoundValue(inst[raymarchPlane], "maxSteps") = 25
       /\ BoundValue(inst[raymarchPlane], "timeMultiplier") = 5000
  /\ Activated("sdf") =>
       /\ BoundValue(inst[tslPlaneSDF], "radius") = 3000
       /\ BoundValue(inst[tslPlaneSDF], "fade") = 20000

\* C30: after dispose() every plane that was constructed (and so had its
\* mesh added to the scene) is out of the scene and was disposed exactly once
C30_EveryPlaneDisposedOnce ==
  last.op = "dispose" =>
    \A i \in Ids :
      kindOf[i] # "none" => (i \notin scene /\ disposeCount[i] = 1)

\* ------------------------------------------- properties of the vehicle
IsTank(i) == kindOf[i] = "desert-tank"

\* wheelOffset of plane i, <<0, 0>> when i is no vehicle
WheelOf(i) ==
  IF IsTank(i) THEN Get(inst[i], "wheelOffset", <<-10 * PosScale, 0>>)
  ELSE <<0, 0>>

\* C22: a vehicle never has more than one jump animation; canJump is false
\* exactly while one runs; a jump request during the flight does not
\* re-capture startY; and, with animation frames being delivered, a jump in
\* flight ends, with wheelOffset.y back at startY and canJump true
C22_OneJumpThatCompletes ==
  /\ [](\A i \in Ids : IsTank(i) =>
          /\ inst[i].jumpAnims <= 1
          /\ inst[i].canJump <=> inst[i].jumpAnims = 0
          /\ inst[i].canJump => WheelOf(i)[2] = inst[i].jumpStartY)
  /\ [][\A i \in Ids : (IsTank(i) /\ ~inst[i].canJump /\ ~inst'[i].canJump) =>
           inst'[i].jumpStartY = inst[i].jumpStartY]_vars
  /\ \A i \in Ids :
       (IsTank(i) /\ ~inst[i].canJump) ~>
         (inst[i].canJump /\ WheelOf(i)[2] = inst[i].jumpStartY)

\* the last frame of a jump of the live vehicle was delivered while the
\* jump key was still held
C22_Witness ==
  /\ last.op = "jumpFrame"
  /\ tslDesertTank # Null
  /\ last.arg = <<tslDesertTank>>
  /\ inst[tslDesertTank].canJump
  /\ "KeyW" \in inst[tslDesertTank].keyMap

\* bulletOffset and shellOffset of plane i, 0 when i is no vehicle
BulletOf(i) == IF IsTank(i) THEN Get(inst[i], "bulletOffset", 20 * PosScale) ELSE 0

ShellOf(i) == IF IsTank(i) THEN Get(inst[i], "shellOffset", 25 * PosScale) ELSE 0

\* C23: a vehicle never has more than one shot in flight and canShoot is
\* false exactly while one is; the step that starts a shot sets bulletOffset
\* and shellOffset to 0; while the shot is in flight neither decreases; and
\* whenever no shot is in flight they are 20 and 25
C23_ShotResetsRisesAndEnds ==
  /\ [](\A i \in Ids : IsTank(i) =>
          /\ inst[i].shootAnims <= 1
          /\ inst[i].canShoot <=> inst[i].shootAnims = 0
          /\ inst[i].canShoot =>
               (BulletOf(i) = 20 * PosScale /\ ShellOf(i) = 25 * PosScale))
  /\ [][\A i \in Ids : IsTank(i) =>
           /\ (inst[i].canShoot /\ ~inst'[i].canShoot) =>
                (BulletOf(i)' = 0 /\ ShellOf(i)' = 0)
           /\ (~inst[i].canShoot /\ ~inst'[i].canShoot) =>
                (BulletOf(i)' >= BulletOf(i) /\ ShellOf(i)' >= ShellOf(i))]_vars

\* the last frame of a shot of the live vehicle was delivered while the
\* fire key was still held
C23_Witness ==
  /\ last.op = "shootFrame"
  /\ tslDesertTank # Null
  /\ last.arg = <<tslDesertTank>>
  /\ inst[tslDesertTank].canShoot
  /\ "Space" \in inst[tslDesertTank].keyMap

\* the lateral step update() takes on a vehicle with the keys it holds
LateralOf(i) ==
  LET left == IF {"KeyA", "ArrowLeft"} \cap inst[i].keyMap # {} THEN 1 ELSE 0
      right == IF {"KeyD", "ArrowRight"} \cap inst[i].keyMap # {} THEN 1 ELSE 0
  IN LateralStep * DeltaTime * (right - left)

\* C24: in every interleaving of frame updates and jump frames, a jump frame
\* leaves wheelOffset.x alone, a frame update leaves wheelOffset.y alone and
\* moves x of the live vehicle by exactly the lateral step of the keys held
\* (and x of no other vehicle), and the frame that ends a jump leaves y at
\* the jump's start value
C24_LateralAndJumpIndependent ==
  [][\A i \in Ids : IsTank(i) =>
       /\ last'.op = "jumpFrame" => WheelOf(i)'[1] = WheelOf(i)[1]
       /\ last'.op = "update" =>
            /\ WheelOf(i)'[2] = WheelOf(i)[2]
            /\ WheelOf(i)'[1] = WheelOf(i)[1] +
                 (IF i = ActiveHandle THEN LateralOf(i) ELSE 0)
       /\ (~inst[i].canJump /\ inst'[i].canJump) =>
            WheelOf(i)'[2] = inst[i].jumpStartY]_vars

\* a frame update stepped the live vehicle to the right between two frames
\* of its jump
C24_Witness ==
  /\ last.op = "update"
  /\ tslDesertTank # Null
  /\ ~inst[tslDesertTank].canJump
  /\ inst[tslDesertTank].jumpElapsed > 0
  /\ WheelOf(tslDesertTank)[2] # inst[tslDesertTank].jumpStartY
  /\ inst[tslDesertTank].keyMap \cap {"KeyA", "KeyD"} = {"KeyD"}
  /\ WheelOf(tslDesertTank)[1] = -10 * PosScale + LateralStep
\* ---------------------------------------------------------------- C25
IsRaymarch(i) == kindOf[i] = "raymarching"

RayFromOf(i) ==
  IF IsRaymarch(i) THEN Get(inst[i], "rayFrom", <<5000, 5000>>) ELSE <<0, 0>>

RayToOf(i) ==
  IF IsRaymarch(i) THEN Get(inst[i], "rayTo", <<10000, 10000>>) ELSE <<0, 0>>

\* C25: on the raymarching plane the engine holds, a pointerDown makes
\* rayFrom equal to the rayTo of that moment and leaves rayTo alone; a
\* pointerMove whose ray hits the mesh sets rayTo to the hit position and
\* leaves rayFrom alone; a pointerMove that misses changes neither.
C25_PointerDragsRay ==
  [][\A i \in Ids : (IsRaymarch(i) /\ raymarchPlane = i) =>
       /\ last'.op = "pointerDown" =>
            /\ RayFromOf(i)' = RayToOf(i)
            /\ RayToOf(i)' = RayToOf(i)
            /\ RayFromOf(i)' = RayToOf(i)'
       /\ (last'.op = "pointerMove" /\ Len(last'.arg) > 0) =>
            /\ RayToOf(i)' = last'.arg[1]
            /\ RayFromOf(i)' = RayFromOf(i)
       /\ (last'.op = "pointerMove" /\ Len(last'.arg) = 0) =>
            /\ RayToOf(i)' = RayToOf(i)
            /\ RayFromOf(i)' = RayFromOf(i)]_vars

\* a drag: the pointer went down at one hit and moved on to another
C25_Witness ==
  /\ last.op = "pointerMove"
  /\ last.arg = << <<0, 0>> >>
  /\ raymarchPlane # Null
  /\ currentActivePlane = "raymarching"
  /\ RayFromOf(raymarchPlane) = <<2500, 7500>>
  /\ RayToOf(raymarchPlane) = <<0, 0>>
====
